---- MODULE Spec2Model ----
(***************************************************************************)
(* The chunked, retried download of historical candles of kitedata:        *)
(* HistoricalDownloader.DownloadHistoricalData, downloadWithRetry and      *)
(* downloadChunk (internal/historical), the configuration defaults         *)
(* (internal/config) and the caller's treatment of the returned error      *)
(* (cmd/main.go).                                                          *)
(*                                                                         *)
(* Time is counted in ticks; Second is the number of ticks of one second.  *)
(* time.Duration counts nanoseconds; every halving of a window that the    *)
(* bounds below allow is exact in ticks, as it is in nanoseconds.          *)
(* Strings whose contents the code inspects (the interval) are sequences   *)
(* of characters.                                                          *)
(***************************************************************************)
EXTENDS Integers, Sequences, FiniteSets, TLC

\* ---------------------------------------------------------------- bounds
\* MaxFaults: the number of calls per run the API may answer with an error
NumInstruments == 3
MaxRetriesBound == 2
MaxFaults == 2
Second == 8
DaysSet == {3, 8, 60, 104}

\* ------------------------------------------------------------ time units
Hour == 3600 * Second
Day == 24 * Hour
\* 60*24*time.Hour
MaxSpan == 60 * 24 * Hour
\* 5*24*time.Hour
MinSplit == 5 * 24 * Hour
\* time.Now(), a fixed instant late enough for every window to start after 0
Now == 200 * Day

\* --------------------------------------------------------------- strings
S_minute == <<"m", "i", "n", "u", "t", "e">>
S_hour == <<"h", "o", "u", "r">>
S_day == <<"d", "a", "y">>
S_week == <<"w", "e", "e", "k">>
S_60minute == <<"6", "0">> \o S_minute
S_invalid == <<>>

HasSuffix(s, suffix) ==
    /\ Len(s) >= Len(suffix)
    /\ SubSeq(s, Len(s) - Len(suffix) + 1, Len(s)) = suffix

\* the switch on config.Historical.Interval; S_invalid stands for the default case
ParseInterval(name) ==
    IF name = S_minute THEN S_minute
    ELSE IF name = S_hour THEN S_60minute
    ELSE IF name = S_day THEN S_day
    ELSE S_invalid

\* ----------------------------------------------------- downloadWithRetry
\* faulty variant: only the literal minute interval counts as sub-day
isMinuteInterval_ExactOnly(iv) == iv = S_minute

isMinuteInterval(iv) ==
    \/ iv = S_minute
    \/ (HasSuffix(iv, S_minute) /\ iv # S_day)

\* faulty variant: a span of exactly 60 days is chunked too
NeedsChunking_AtLeast(iv, f, t) == isMinuteInterval(iv) /\ (t - f) >= MaxSpan

NeedsChunking(iv, f, t) == isMinuteInterval(iv) /\ (t - f) > MaxSpan

\* faulty variant: the chunk runs to the end of the window
ChunkEnd_NoLimit(cf, t) == t

\* for currentFrom.Before(to)
LoopContinues(cf, t) == cf < t

\* currentTo := currentFrom.Add(60 days); if currentTo.After(to) { currentTo = to }
ChunkEnd(cf, t) == IF cf + MaxSpan > t THEN t ELSE cf + MaxSpan

\* faulty variant: the next chunk starts at the instant the last one ended
NextChunkFrom_Overlap(ct) == ct

\* faulty variant: the next chunk starts where the last one started
NextChunkFrom_NoAdvance(ct) == ct - MaxSpan

\* currentFrom = currentTo.Add(time.Second)
NextChunkFrom(ct) == ct + Second

\* ---------------------------------------------------------- downloadChunk
\* the error texts GetHistoricalData can return, as far as the code tells them apart
ApiErrors == {"interval exceeds max limit: 60 days", "too many candles requested", "other"}

IsRangeTooLarge(e) ==
    e \in {"interval exceeds max limit: 60 days", "too many candles requested"}

\* faulty variant: the floor is 2 days, one more level of bisection
TooSmall_TwoDays(f, t) == (t - f) <= 2 * Day

\* faulty variant: the floor is 5 hours instead of 5 days
TooSmall_Hours(f, t) == (t - f) <= 5 * Hour

TooSmall(f, t) == (t - f) <= MinSplit

\* mid := from.Add(to.Sub(from) / 2); only evaluated for to - from > 5 days
Mid(f, t) == f + ((t - f) \div 2)

\* faulty variant: the second half starts at mid itself
SecondHalfFrom_NoGap(mid) == mid

\* the second half starts at mid.Add(time.Second)
SecondHalfFrom(mid) == mid + Second

\* the answer of the API to a request for [f, t], ascending and inside the window:
\* no row for an instrument without data, else the rows at both ends of the window
Responses(f, t, hasData) ==
    IF f < t /\ hasData THEN {<<[Date |-> f], [Date |-> t]>>} ELSE {<<>>}

\* the conversion of the API's rows to HistoricalCandle, in order
Convert(data) == [j \in 1..Len(data) |-> [Timestamp |-> data[j].Date]]

\* faulty variant: the first half is appended twice
Combine_Twice(firstHalf, secondHalf) == firstHalf \o firstHalf \o secondHalf

\* faulty variant: the halves are appended in the wrong order
Combine_Swapped(firstHalf, secondHalf) == secondHalf \o firstHalf

\* firstHalf, secondHalf -> append(firstHalf, secondHalf...)
Combine(firstHalf, secondHalf) == firstHalf \o secondHalf

\* faulty variant: a call starts with one attempt of its budget already taken
NewFrame_Shared(f, t) ==
    [from |-> f, to |-> t, i |-> 1, pc |-> "call", firstHalf |-> <<>>, calls |-> 0,
     rejected |-> FALSE, paced |-> FALSE]

\* the locals of one downloadChunk call: the loop counter i starts at 0; calls
\* counts the GetHistoricalData calls made, rejected tells that one of them was
\* answered range-too-large, paced that the sleep between the halves is over
NewFrame(f, t) ==
    [from |-> f, to |-> t, i |-> 0, pc |-> "call", firstHalf |-> <<>>, calls |-> 0,
     rejected |-> FALSE, paced |-> FALSE]

\* faulty variant: a rejected window at the floor is retried like any other error
OnRangeTooLarge_Retry(fr) ==
    IF TooSmall(fr.from, fr.to) THEN "retry" ELSE "bisect"

\* what downloadChunk does with a range-too-large answer, whatever i is: give up
\* when the window is at the floor, else split it
OnRangeTooLarge(fr) ==
    IF TooSmall(fr.from, fr.to) THEN "fail" ELSE "bisect"

NoRet == [err |-> "pending", candles |-> <<>>, from |-> 0, to |-> 0, calls |-> 0]

OkRet(c, fr) ==
    [err |-> "none", candles |-> c, from |-> fr.from, to |-> fr.to, calls |-> fr.calls]

ErrRet(kind, fr) ==
    [err |-> kind, candles |-> <<>>, from |-> fr.from, to |-> fr.to, calls |-> fr.calls]

Errs == {"Exhausted", "WindowTooSmall"}

Front(s) == SubSeq(s, 1, Len(s) - 1)
Top(s) == s[Len(s)]

\* faulty variant: when the second half fails the first half is returned alone
RECURSIVE Return_Partial(_, _)
Return_Partial(stk, res) ==
    IF stk = <<>> THEN [stack |-> <<>>, ret |-> res]
    ELSE LET caller == Top(stk) IN
         IF res.err # "none"
         THEN IF caller.pc = "second"
              THEN Return_Partial(Front(stk), OkRet(caller.firstHalf, caller))
              ELSE Return_Partial(Front(stk), res)
         ELSE IF caller.pc = "first"
              THEN [stack |-> Front(stk) \o
                        <<[caller EXCEPT !.pc = "pace", !.firstHalf = res.candles]>>,
                    ret |-> NoRet]
              ELSE Return_Partial(Front(stk),
                          OkRet(Combine(caller.firstHalf, res.candles), caller))

\* A downloadChunk call returns res to the callers on stk: an error is handed
\* up unchanged; the first half's candles are kept and the caller goes on to its
\* pacing sleep; the second half's candles are appended to the first half's and
\* the caller returns in turn.
RECURSIVE Return(_, _)
Return(stk, res) ==
    IF stk = <<>> THEN [stack |-> <<>>, ret |-> res]
    ELSE LET caller == Top(stk) IN
         IF res.err # "none" THEN Return(Front(stk), res)
         ELSE IF caller.pc = "first"
              THEN [stack |-> Front(stk) \o
                        <<[caller EXCEPT !.pc = "pace", !.firstHalf = res.candles]>>,
                    ret |-> NoRet]
              ELSE Return(Front(stk),
                          OkRet(Combine(caller.firstHalf, res.candles), caller))

\* faulty variant: the sleep is taken after the last attempt too
SleepsBeforeRetry_Always(fr, maxRetries) == TRUE

\* the sleep before a retry is taken only when another attempt follows
SleepsBeforeRetry(fr, maxRetries) == fr.i < maxRetries - 1

\* faulty variant: the loop condition is i <= MaxRetries
LoopGoesOn_OneMore(fr, maxRetries) == fr.i + 1 <= maxRetries

\* i++ and the loop condition i < MaxRetries
LoopGoesOn(fr, maxRetries) == fr.i + 1 < maxRetries

\* the API may answer with an error as long as the run's budget of errors lasts;
\* a budget of Unlimited never runs out
Unlimited == 0 - 1
CanFail(e) == e.faults # 0
Failed(e) == IF e.faults > 0 THEN [e EXCEPT !.faults = e.faults - 1] ELSE e

\* env.calls counts the GetHistoricalData calls made since downloadWithRetry
\* last called downloadChunk, until downloadWithRetry has taken the result
Counted(e) == [e EXCEPT !.calls = e.calls + 1]
Uncounted(e) == [e EXCEPT !.calls = 0]

VARIABLES cfg, flags, pc, idx, cancelled, observed, retErr, interval,
          from, to, chunked, currentFrom, currentTo, allCandles, wpc, chunks,
          stack, ret, candles, status, csvCalls, pqCalls, env, series, called

vars == <<cfg, flags, pc, idx, cancelled, observed, retErr, interval,
          from, to, chunked, currentFrom, currentTo, allCandles, wpc, chunks,
          stack, ret, candles, status, csvCalls, pqCalls, env, series, called>>

orchVars == <<cfg, flags, cancelled, observed, retErr, interval, from, to>>
dwrVars == <<chunked, currentFrom, currentTo, allCandles, wpc, chunks>>
storeVars == <<status, csvCalls, pqCalls>>

Instruments == 1..NumInstruments

\* faulty variant: the loop never looks at the context
CtxDone_Never(c) == FALSE

\* case <-ctx.Done() of a select is ready once cancel() was called
CtxDone(c) == c

\* the command line and the symbols: key of the YAML file as far as the claims
\* need them: --symbols and --symbol-file given or not, --from and --to as the
\* instants of the dates given (0 for a flag left out), --days and
\* --request-delay (0 by default)
DefaultFlags ==
    [symbols |-> TRUE, symbolFile |-> FALSE, cfgSymbols |-> FALSE,
     fromDate |-> 0, toDate |-> 0, days |-> 0, requestDelay |-> 0]

FlagSets ==
    {f \in [symbols : BOOLEAN, symbolFile : BOOLEAN, cfgSymbols : {TRUE},
            fromDate : {0, 100 * Day}, toDate : {0, 130 * Day},
            days : {0}, requestDelay : {0}] :
        (f.fromDate = 0) = (f.toDate = 0)}

\* the command lines of the runs that start from the configuration file
ConfigFlagSets ==
    [symbols : {TRUE}, symbolFile : {FALSE}, cfgSymbols : {FALSE},
     fromDate : {0}, toDate : {0}, days : {0, 8}, requestDelay : {0, 250}]

\* where runRootCommand takes the symbols from: --symbols, else --symbol-file,
\* else log.Fatalf; Config has no field for the YAML file's symbols: key
SymbolSource(fl) ==
    IF fl.symbols THEN "flag"
    ELSE IF fl.symbolFile THEN "file"
    ELSE "fatal"

\* the window DownloadHistoricalData asks for: the last DaysToFetch days
RequestedTo(c, fl) == Now
RequestedFrom(c, fl) == Now - c.DaysToFetch * Day

\* the configurations LoadConfig, applyDefaults and the flags produce: an interval
\* name (week stands for every name the switch rejects), the days to fetch, the
\* number of attempts (0 is replaced by the default, a flag overrides when > 0)
Configs ==
    [Interval : {S_minute, S_hour, S_day, S_week},
     DaysToFetch : DaysSet,
     RequestDelay : {500},
     MaxRetries : 1..MaxRetriesBound,
     ParquetEnabled : BOOLEAN]

\* what viper.Unmarshal can leave in Config.Historical from the file and the
\* environment, before applyDefaults: no interval or one, a number of days and
\* a delay of either sign or 0 (MaxRetries is kept to the values Configs has)
S_empty == <<>>

RawConfigs ==
    [Interval : {S_empty, S_day},
     DaysToFetch : {-3, 0, 104},
     RequestDelay : {-100, 0},
     MaxRetries : {MaxRetriesBound},
     ParquetEnabled : {TRUE}]

\* applyDefaults, the historical settings
applyDefaults(c) ==
    [c EXCEPT !.Interval = IF c.Interval = S_empty THEN S_minute ELSE c.Interval,
              !.DaysToFetch = IF c.DaysToFetch = 0 THEN 30 ELSE c.DaysToFetch,
              !.RequestDelay = IF c.RequestDelay = 0 THEN 500 ELSE c.RequestDelay,
              !.MaxRetries = IF c.MaxRetries = 0 THEN 3 ELSE c.MaxRetries]

\* runRootCommand, 2. Override configuration with command-line flags
OverrideWithFlags(c, fl) ==
    [c EXCEPT !.DaysToFetch = IF fl.days > 0 THEN fl.days ELSE c.DaysToFetch,
              !.RequestDelay = IF fl.requestDelay > 0 THEN fl.requestDelay
                               ELSE c.RequestDelay]

\* the sleeps of the downloader in milliseconds: between chunks, between the
\* halves of a bisection and between instruments; before a retry
PacingDelay(c) == c.RequestDelay
BackoffDelay(c) == c.RequestDelay * 2

InitRest ==
    /\ cancelled = FALSE
    /\ observed = FALSE
    /\ retErr = "none"
    /\ chunked = FALSE
    /\ currentFrom = 0
    /\ currentTo = 0
    /\ allCandles = <<>>
    /\ wpc = "idle"
    /\ chunks = <<>>
    /\ stack = <<>>
    /\ ret = NoRet
    /\ candles = <<>>
    /\ status = [k \in Instruments |-> "pending"]
    /\ csvCalls = [k \in Instruments |-> 0]
    /\ pqCalls = [k \in Instruments |-> 0]
    /\ env = [faults |-> MaxFaults, calls |-> 0]
    /\ series = FALSE
    /\ called = [k \in Instruments |-> FALSE]

Init ==
    /\ cfg \in Configs
    /\ flags = DefaultFlags
    /\ pc = "start"
    /\ idx = 1
    /\ interval = S_invalid
    /\ from = 0
    /\ to = 0
    /\ InitRest


\* Init of the specification of downloadWithRetry on any window: the state at the
\* top of the instrument loop, with from and to any two instants (cfg.DaysToFetch
\* is read by Start alone and plays no part here)
WindowBase == 10 * Day
WindowSpans ==
    {MaxSpan, MaxSpan + Second, MaxSpan + 2 * Second, 2 * MaxSpan + 2 * Second}

\* Init of the specification of the program run with any command line
InitFlags ==
    /\ cfg \in {c \in Configs : /\ c.DaysToFetch = 104
                               /\ c.Interval \in {S_minute, S_day, S_week}
                               /\ c.MaxRetries = MaxRetriesBound}
    /\ flags \in FlagSets
    /\ pc = "start"
    /\ idx = 1
    /\ interval = S_invalid
    /\ from = 0
    /\ to = 0
    /\ InitRest

\* Init of the specification of the program run from LoadConfig on
InitConfig ==
    /\ cfg \in RawConfigs
    /\ flags \in ConfigFlagSets
    /\ pc = "load"
    /\ idx = 1
    /\ interval = S_invalid
    /\ from = 0
    /\ to = 0
    /\ InitRest

\* LoadConfig applies the defaults to what it has read
LoadDefaults ==
    /\ pc = "load"
    /\ cfg' = applyDefaults(cfg)
    /\ pc' = "flags"
    /\ UNCHANGED <<flags, idx, cancelled, observed, retErr, interval, from, to,
                   dwrVars, stack, ret, candles, storeVars, env, series, called>>

\* runRootCommand overrides the configuration with the flags given
ApplyFlags ==
    /\ pc = "flags"
    /\ cfg' = OverrideWithFlags(cfg, flags)
    /\ pc' = "start"
    /\ UNCHANGED <<flags, idx, cancelled, observed, retErr, interval, from, to,
                   dwrVars, stack, ret, candles, storeVars, env, series, called>>

\* Init of the specification of one downloadChunk call on a window of at most
\* 60 days, with the API free to answer every call with an error
ChunkDays == {3, 8, 20, 60}

InitChunk ==
    /\ cfg \in [Interval : {S_minute},
                DaysToFetch : ChunkDays,
                RequestDelay : {500},
                MaxRetries : 1..MaxRetriesBound,
                ParquetEnabled : {FALSE}]
    /\ flags = DefaultFlags
    /\ pc = "fetch"
    /\ idx = 1
    /\ interval = S_minute
    /\ to = Now
    /\ from = Now - cfg.DaysToFetch * Day
    /\ cancelled = FALSE
    /\ observed = FALSE
    /\ retErr = "none"
    /\ chunked = FALSE
    /\ currentFrom = from
    /\ currentTo = to
    /\ allCandles = <<>>
    /\ wpc = "chunk"
    /\ chunks = <<[from |-> from, to |-> to]>>
    /\ stack = <<NewFrame(from, to)>>
    /\ ret = NoRet
    /\ candles = <<>>
    /\ status = [k \in Instruments |-> "pending"]
    /\ csvCalls = [k \in Instruments |-> 0]
    /\ pqCalls = [k \in Instruments |-> 0]
    /\ env = [faults |-> Unlimited, calls |-> 0]
    /\ series \in IF cfg.DaysToFetch > 20 THEN {FALSE} ELSE BOOLEAN
    /\ called = [k \in Instruments |-> FALSE]

InitWindow ==
    /\ cfg \in {c \in Configs : c.DaysToFetch = 60 /\ ParseInterval(c.Interval) # S_invalid}
    /\ flags = DefaultFlags
    /\ pc = "loop"
    /\ idx = 1
    /\ interval = ParseInterval(cfg.Interval)
    /\ from = WindowBase
    /\ to \in {WindowBase + s : s \in WindowSpans}
    /\ InitRest

\* ------------------------------------------------ DownloadHistoricalData
\* runRootCommand from the choice of the symbols on, then the head of
\* DownloadHistoricalData: to := time.Now(); from := to.AddDate(0, 0, -DaysToFetch);
\* the interval switch
Start ==
    /\ pc = "start"
    /\ IF SymbolSource(flags) = "fatal"
       THEN /\ pc' = "done"
            /\ retErr' = "noSymbols"
            /\ UNCHANGED <<from, to, interval>>
       ELSE /\ to' = RequestedTo(cfg, flags)
            /\ from' = RequestedFrom(cfg, flags)
            /\ interval' = ParseInterval(cfg.Interval)
            /\ IF ParseInterval(cfg.Interval) = S_invalid
               THEN pc' = "done" /\ retErr' = "invalidInterval"
               ELSE pc' = "loop" /\ retErr' = retErr
    /\ UNCHANGED <<cfg, flags, idx, cancelled, observed, dwrVars, stack, ret, candles,
                   storeVars, env, series, called>>

\* the value DownloadHistoricalData returns when it sees ctx.Done(): ctx.Err()
CtxDoneReturn == "ctxErr"

\* select { case <-ctx.Done(): return ctx.Err() ... } at the top of an iteration
LoopCancelled ==
    /\ pc = "loop"
    /\ idx <= NumInstruments
    /\ CtxDone(cancelled)
    /\ pc' = "done"
    /\ retErr' = CtxDoneReturn
    /\ observed' = TRUE
    /\ UNCHANGED <<cfg, flags, idx, cancelled, interval, from, to, dwrVars, stack, ret,
                   candles, storeVars, env, series, called>>

\* the range over instruments is exhausted: return nil
LoopEnd ==
    /\ pc = "loop"
    /\ idx > NumInstruments
    /\ pc' = "done"
    /\ retErr' = "nil"
    /\ UNCHANGED <<cfg, flags, idx, cancelled, observed, interval, from, to, dwrVars,
                   stack, ret, candles, storeVars, env, series, called>>

\* default: of the select, then downloadWithRetry up to its first downloadChunk call;
\* series tells whether the broker holds candles for this instrument
BeginInstrument ==
    /\ pc = "loop"
    /\ idx <= NumInstruments
    /\ ~CtxDone(cancelled)
    /\ pc' = "fetch"
    /\ chunked' = NeedsChunking(interval, from, to)
    /\ IF NeedsChunking(interval, from, to)
       THEN /\ currentFrom' = from
            /\ currentTo' = ChunkEnd(from, to)
       ELSE /\ currentFrom' = from
            /\ currentTo' = to
    /\ chunks' = <<[from |-> currentFrom', to |-> currentTo']>>
    /\ stack' = <<NewFrame(currentFrom', currentTo')>>
    /\ allCandles' = <<>>
    /\ candles' = <<>>
    /\ ret' = NoRet
    /\ wpc' = "chunk"
    /\ series' \in BOOLEAN
    /\ UNCHANGED <<orchVars, idx, storeVars, env, called>>

\* ---------------------------------------------------------- downloadChunk
AtCall == pc = "fetch" /\ stack # <<>> /\ Top(stack).pc = "call"

Called(fr) == [fr EXCEPT !.calls = fr.calls + 1]

\* GetHistoricalData answers without error
ApiSuccess ==
    /\ AtCall
    /\ \E data \in Responses(Top(stack).from, Top(stack).to, series) :
         LET fr == Called(Top(stack))
             r == Return(Front(stack), OkRet(Convert(data), fr))
         IN /\ stack' = r.stack
            /\ ret' = r.ret
    /\ env' = Counted(env)
    /\ UNCHANGED <<orchVars, pc, idx, dwrVars, candles, storeVars, series>>
    /\ called' = [called EXCEPT ![idx] = TRUE]

\* i++ and the loop condition; the return after the loop
NextAttempt(stk, fr) ==
    IF LoopGoesOn(fr, cfg.MaxRetries)
    THEN [stack |-> Front(stk) \o <<[fr EXCEPT !.i = fr.i + 1, !.pc = "call"]>>,
          ret |-> NoRet]
    ELSE Return(Front(stk), ErrRet("Exhausted", fr))

\* GetHistoricalData answers with the range-too-large signature
ApiRangeTooLarge ==
    /\ AtCall
    /\ CanFail(env)
    /\ \E e \in ApiErrors :
         /\ IsRangeTooLarge(e)
         /\ LET fr == [Called(Top(stack)) EXCEPT !.rejected = TRUE] IN
            CASE OnRangeTooLarge(fr) = "fail" ->
                   LET r == Return(Front(stack), ErrRet("WindowTooSmall", fr))
                   IN stack' = r.stack /\ ret' = r.ret
              [] OnRangeTooLarge(fr) = "bisect" ->
                   /\ stack' = Front(stack) \o <<[fr EXCEPT !.pc = "first"]>>
                                  \o <<NewFrame(fr.from, Mid(fr.from, fr.to))>>
                   /\ ret' = NoRet
              [] OTHER ->
                   LET r == NextAttempt(stack, fr)
                   IN stack' = r.stack /\ ret' = r.ret
    /\ env' = Counted(Failed(env))
    /\ UNCHANGED <<orchVars, pc, idx, dwrVars, candles, storeVars, series>>
    /\ called' = [called EXCEPT ![idx] = TRUE]

\* GetHistoricalData answers with any other error
ApiTransient ==
    /\ AtCall
    /\ CanFail(env)
    /\ \E e \in ApiErrors :
         /\ ~IsRangeTooLarge(e)
         /\ LET fr == Called(Top(stack)) IN
            IF SleepsBeforeRetry(fr, cfg.MaxRetries)
            THEN /\ stack' = Front(stack) \o <<[fr EXCEPT !.pc = "backoff"]>>
                 /\ ret' = NoRet
            ELSE LET r == NextAttempt(stack, fr)
                 IN stack' = r.stack /\ ret' = r.ret
    /\ env' = Counted(Failed(env))
    /\ UNCHANGED <<orchVars, pc, idx, dwrVars, candles, storeVars, series>>
    /\ called' = [called EXCEPT ![idx] = TRUE]

\* time.Sleep(RequestDelay*2) is over
BackoffSleep ==
    /\ pc = "fetch"
    /\ stack # <<>>
    /\ Top(stack).pc = "backoff"
    /\ LET r == NextAttempt(stack, Top(stack))
       IN stack' = r.stack /\ ret' = r.ret
    /\ UNCHANGED <<orchVars, pc, idx, dwrVars, candles, storeVars, env, series, called>>

\* time.Sleep(RequestDelay) between the halves is over: the second half is called
BisectPace ==
    /\ pc = "fetch"
    /\ stack # <<>>
    /\ Top(stack).pc = "pace"
    /\ LET fr == Top(stack) IN
       stack' = Front(stack) \o <<[fr EXCEPT !.pc = "second", !.paced = TRUE]>>
                  \o <<NewFrame(SecondHalfFrom(Mid(fr.from, fr.to)), fr.to)>>
    /\ ret' = NoRet
    /\ UNCHANGED <<orchVars, pc, idx, dwrVars, candles, storeVars, env, series, called>>

\* ------------------------------------- downloadWithRetry after downloadChunk
\* faulty variant: the chunks fetched so far are returned as a success
ChunkError_KeepPartial(all, r) == [candles |-> all, err |-> "none"]

\* what downloadWithRetry returns when a chunk of the chunked loop failed
ChunkError(all, r) == [candles |-> <<>>, err |-> r.err]

\* faulty variant: the error is returned and the batch ends
AfterFetchError_Abort(k) == [pc |-> "done", idx |-> k, retErr |-> "fetchError"]

\* faulty variant: the error is logged and the iteration goes on to the save
AfterFetchError_FallThrough(k) == [pc |-> "save", idx |-> k, retErr |-> "none"]

\* what DownloadHistoricalData does when downloadWithRetry returned an error:
\* log and continue
AfterFetchError(k) == [pc |-> "loop", idx |-> k + 1, retErr |-> "none"]

Returned == pc = "fetch" /\ stack = <<>> /\ wpc = "chunk" /\ ret.err # "pending"

\* downloadWithRetry returns: the single downloadChunk call's result as it is,
\* or the error of a failed chunk of the chunked loop
Returns == Returned /\ (~chunked \/ ret.err # "none")

DwrResult ==
    IF chunked THEN ChunkError(allCandles, ret)
    ELSE [candles |-> ret.candles, err |-> ret.err]

\* downloadWithRetry returned an error: DownloadHistoricalData skips the instrument
FetchFailed ==
    /\ Returns
    /\ DwrResult.err # "none"
    /\ candles' = DwrResult.candles
    /\ pc' = AfterFetchError(idx).pc
    /\ idx' = AfterFetchError(idx).idx
    /\ retErr' = IF AfterFetchError(idx).retErr = "none" THEN retErr
                 ELSE AfterFetchError(idx).retErr
    /\ status' = [status EXCEPT ![idx] = "fetchFailed"]
    /\ allCandles' = <<>>
    /\ wpc' = "idle"
    /\ env' = Uncounted(env)
    /\ UNCHANGED <<cfg, flags, cancelled, observed, interval, from, to, chunked,
                   currentFrom, currentTo, chunks, stack, ret, csvCalls, pqCalls,
                   series, called>>

\* downloadWithRetry returned candles without running the chunked loop to its end
SingleReturned ==
    /\ Returns
    /\ DwrResult.err = "none"
    /\ candles' = DwrResult.candles
    /\ pc' = "save"
    /\ wpc' = "idle"
    /\ env' = Uncounted(env)
    /\ UNCHANGED <<orchVars, idx, chunked, currentFrom, currentTo, allCandles,
                   chunks, stack, ret, storeVars, series, called>>

\* a chunk of the chunked loop returned candles: append, move on, sleep
ChunkReturned ==
    /\ Returned
    /\ chunked
    /\ ret.err = "none"
    /\ allCandles' = allCandles \o ret.candles
    /\ currentFrom' = NextChunkFrom(currentTo)
    /\ wpc' = "sleep"
    /\ env' = Uncounted(env)
    /\ UNCHANGED <<orchVars, pc, idx, chunked, currentTo, chunks, stack, ret,
                   candles, storeVars, series, called>>

\* the sleep after a chunk is over and the loop condition holds: the next chunk
NextChunk ==
    /\ pc = "fetch"
    /\ wpc = "sleep"
    /\ LoopContinues(currentFrom, to)
    /\ currentTo' = ChunkEnd(currentFrom, to)
    /\ chunks' = Append(chunks, [from |-> currentFrom, to |-> currentTo'])
    /\ stack' = <<NewFrame(currentFrom, currentTo')>>
    /\ ret' = NoRet
    /\ wpc' = "chunk"
    /\ UNCHANGED <<orchVars, pc, idx, chunked, currentFrom, allCandles, candles,
                   storeVars, env, series, called>>

\* the sleep after a chunk is over and the loop ends: return allCandles, nil
ChunksDone ==
    /\ pc = "fetch"
    /\ wpc = "sleep"
    /\ ~LoopContinues(currentFrom, to)
    /\ candles' = allCandles
    /\ pc' = "save"
    /\ wpc' = "idle"
    /\ UNCHANGED <<orchVars, idx, chunked, currentFrom, currentTo, allCandles,
                   chunks, stack, ret, storeVars, env, series, called>>

\* ------------------------------------------------------------ persistence
SaveCSVOk ==
    /\ pc = "save"
    /\ csvCalls' = [csvCalls EXCEPT ![idx] = csvCalls[idx] + 1]
    /\ IF cfg.ParquetEnabled
       THEN pc' = "parquet" /\ status' = status
       ELSE pc' = "wait" /\ status' = [status EXCEPT ![idx] = "stored"]
    /\ UNCHANGED <<orchVars, idx, dwrVars, stack, ret, candles, pqCalls, env, series, called>>

\* faulty variant: the error of the store is returned and the batch ends
AfterStoreError_Abort(k) == [pc |-> "done", idx |-> k, retErr |-> "storeError"]

\* what DownloadHistoricalData does when saveToCSV or convertToParquet returned
\* an error: log and continue
AfterStoreError(k) == [pc |-> "loop", idx |-> k + 1, retErr |-> "none"]

SaveCSVFail ==
    /\ pc = "save"
    /\ csvCalls' = [csvCalls EXCEPT ![idx] = csvCalls[idx] + 1]
    /\ status' = [status EXCEPT ![idx] = "saveFailed"]
    /\ idx' = AfterStoreError(idx).idx
    /\ pc' = AfterStoreError(idx).pc
    /\ retErr' = IF AfterStoreError(idx).retErr = "none" THEN retErr
                 ELSE AfterStoreError(idx).retErr
    /\ UNCHANGED <<cfg, flags, cancelled, observed, interval, from, to, dwrVars, stack,
                   ret, candles, pqCalls, env, series, called>>

ParquetOk ==
    /\ pc = "parquet"
    /\ pqCalls' = [pqCalls EXCEPT ![idx] = pqCalls[idx] + 1]
    /\ status' = [status EXCEPT ![idx] = "stored"]
    /\ pc' = "wait"
    /\ UNCHANGED <<orchVars, idx, dwrVars, stack, ret, candles, csvCalls, env, series, called>>

\* convertToParquet returns nil at once for no candles; otherwise a write may fail
ParquetFail ==
    /\ pc = "parquet"
    /\ Len(candles) > 0
    /\ pqCalls' = [pqCalls EXCEPT ![idx] = pqCalls[idx] + 1]
    /\ status' = [status EXCEPT ![idx] = "parquetFailed"]
    /\ idx' = AfterStoreError(idx).idx
    /\ pc' = AfterStoreError(idx).pc
    /\ retErr' = IF AfterStoreError(idx).retErr = "none" THEN retErr
                 ELSE AfterStoreError(idx).retErr
    /\ UNCHANGED <<cfg, flags, cancelled, observed, interval, from, to, dwrVars, stack,
                   ret, candles, csvCalls, env, series, called>>

\* select { case <-ctx.Done(): ...; case <-time.After(RequestDelay): }
WaitElapsed ==
    /\ pc = "wait"
    /\ idx' = idx + 1
    /\ pc' = "loop"
    /\ UNCHANGED <<orchVars, dwrVars, stack, ret, candles, storeVars, env, series, called>>

WaitCancelled ==
    /\ pc = "wait"
    /\ CtxDone(cancelled)
    /\ pc' = "done"
    /\ retErr' = CtxDoneReturn
    /\ observed' = TRUE
    /\ UNCHANGED <<cfg, flags, idx, cancelled, interval, from, to, dwrVars, stack, ret,
                   candles, storeVars, env, series, called>>

\* the signal goroutine calls cancel()
Cancel ==
    /\ ~cancelled
    /\ pc \notin {"load", "flags", "done"}
    /\ cancelled' = TRUE
    /\ UNCHANGED <<cfg, flags, pc, idx, observed, retErr, interval, from, to, dwrVars,
                   stack, ret, candles, storeVars, env, series, called>>

\* log.Fatalf in runRootCommand when DownloadHistoricalData returned an error
MainFatal == pc = "done" /\ retErr # "nil"

\* the steps of the program itself
Program ==
    \/ LoopCancelled
    \/ LoopEnd
    \/ BeginInstrument
    \/ ApiSuccess
    \/ ApiRangeTooLarge
    \/ ApiTransient
    \/ BackoffSleep
    \/ BisectPace
    \/ FetchFailed
    \/ SingleReturned
    \/ ChunkReturned
    \/ NextChunk
    \/ ChunksDone
    \/ SaveCSVOk
    \/ SaveCSVFail
    \/ ParquetOk
    \/ ParquetFail
    \/ WaitElapsed
    \/ WaitCancelled

Step == Program \/ Cancel

Next == Start \/ Step

Spec == Init /\ [][Next]_vars

SpecWindow == InitWindow /\ [][Step]_vars

SpecFlags == InitFlags /\ [][Next]_vars

\* the steps of downloadChunk and of the calls it makes
ChunkStep ==
    \/ ApiSuccess
    \/ ApiRangeTooLarge
    \/ ApiTransient
    \/ BackoffSleep
    \/ BisectPace

SpecChunk == InitChunk /\ [][ChunkStep]_vars

NextConfig == LoadDefaults \/ ApplyFlags \/ Next

SpecConfig == InitConfig /\ [][NextConfig]_vars

\* ------------------------------------------------------------------ claims
Span(w) == w.to - w.from

Total == [from |-> from, to |-> to]

RECURSIVE SumLen(_)
SumLen(ws) == IF ws = <<>> THEN 0 ELSE Span(ws[1]) + Second + SumLen(Tail(ws))

\* downloadWithRetry ran its chunked loop to the end
ChunkedDone == chunked /\ pc = "save"

\* C1 (window coverage): when a chunked fetch has submitted all its chunks, the
\* chunks are in order and disjoint, lie inside [from, to], together hold exactly
\* as many seconds as [from, to], and none spans more than 60 days.
C1_WindowCoverage ==
    ChunkedDone =>
        /\ \A j \in 1..Len(chunks) :
             /\ chunks[j].from >= from
             /\ chunks[j].to <= to
             /\ Span(chunks[j]) <= MaxSpan
        /\ \A j \in 1..(Len(chunks) - 1) : chunks[j + 1].from > chunks[j].to
        /\ SumLen(chunks) = Span(Total) + Second

\* C2 (chunk boundaries): when a chunked fetch has submitted all its chunks, the
\* first starts at from, each next one starts one second after the end of the one
\* before it, and the last ends exactly at to.
C2_ChunkBoundaries ==
    ChunkedDone =>
        /\ chunks[1].from = from
        /\ \A j \in 1..(Len(chunks) - 1) : chunks[j + 1].from = chunks[j].to + Second
        /\ chunks[Len(chunks)].to = to

\* C3 (single-chunk shortcut): for a total span of at most 60 days the one window
\* downloadWithRetry submits is the total window, and the chunked loop is not entered.
C3_SingleChunkShortcut ==
    (chunks # <<>> /\ Span(Total) <= MaxSpan) =>
        /\ chunks = <<Total>>
        /\ ~chunked
        /\ wpc # "sleep"

C3_Witness ==
    /\ pc = "save"
    /\ Span(Total) = MaxSpan
    /\ interval = S_minute
    /\ chunks = <<Total>>

\* C4 (chunking trigger): the chunked loop is entered exactly for the minute and
\* 60minute intervals with a span above 60 days; otherwise the total window is the
\* only window submitted.
C4_ChunkingTrigger ==
    chunks # <<>> =>
        /\ chunked <=> (interval \in {S_minute, S_60minute} /\ Span(Total) > MaxSpan)
        /\ ~(interval \in {S_minute, S_60minute} /\ Span(Total) > MaxSpan)
              => chunks = <<Total>>

C4_Witness ==
    /\ chunked
    /\ interval = S_60minute
    /\ Len(chunks) = 2
    /\ pc = "save"

\* C5 (retry bound): a downloadChunk call that fails as exhausted has made exactly
\* MaxRetries calls, and no downloadChunk call makes more than MaxRetries calls.
C5_RetryBound ==
    /\ ret.err = "Exhausted" => ret.calls = cfg.MaxRetries
    /\ ret.calls <= cfg.MaxRetries
    /\ \A j \in 1..Len(stack) : stack[j].calls <= cfg.MaxRetries

C5_Witness ==
    /\ ret.err = "Exhausted"
    /\ cfg.MaxRetries = 2
    /\ ret.calls = 2

Bisected(fr) == fr.pc \in {"first", "pace", "second"}

RECURSIVE Pow2(_)
Pow2(n) == IF n <= 0 THEN 1 ELSE 2 * Pow2(n - 1)

\* C6 (bisection termination): every recursive call is on a window of at most half
\* its caller's span; only windows above 5 days are bisected; the window-too-small
\* failure is that of a window of at most 5 days and ends the whole recursion; the
\* depth is bounded by the number of halvings that keep the span above 5 days.
C6_BisectionTermination ==
    /\ \A j \in 2..Len(stack) : 2 * Span(stack[j]) <= Span(stack[j - 1])
    /\ \A j \in 1..Len(stack) : Bisected(stack[j]) => Span(stack[j]) > MinSplit
    /\ \A j \in 1..(Len(stack) - 1) : Bisected(stack[j])
    /\ ret.err = "WindowTooSmall" => (Span(ret) <= MinSplit /\ stack = <<>>)
    /\ Len(stack) >= 2 => Pow2(Len(stack) - 2) * MinSplit < Span(stack[1])

C6_Witness ==
    /\ ret.err = "WindowTooSmall"
    /\ chunks # <<>>
    /\ 2 * Span(ret) <= Span(chunks[Len(chunks)])

NonDecreasing(cs) ==
    \A j \in 1..(Len(cs) - 1) : cs[j].Timestamp <= cs[j + 1].Timestamp

\* C7 (candle ordering): the candles handed to saveToCSV are non-decreasing in
\* timestamp.
C7_CandleOrdering == pc = "save" => NonDecreasing(candles)

C7_Witness ==
    /\ pc = "save"
    /\ chunked
    /\ Len(chunks) >= 2
    /\ Len(candles) > 2 * Len(chunks)

\* C8 (instrument isolation): a failed fetch never ends the batch: unless the
\* interval is invalid or cancellation was observed, the run ends with nil and with
\* every instrument processed; every instrument before the current one has an
\* outcome of its own, stored ones with one saveToCSV call.
C8_InstrumentIsolation ==
    /\ (pc = "done" /\ ~observed /\ retErr # "invalidInterval") =>
          (retErr = "nil" /\ \A k \in Instruments : status[k] # "pending")
    /\ \A k \in Instruments : (k < idx /\ pc # "start") => status[k] # "pending"
    /\ \A k \in Instruments : status[k] = "stored" => csvCalls[k] = 1

C8_Witness ==
    /\ pc = "done"
    /\ status[1] = "stored"
    /\ status[2] = "fetchFailed"
    /\ status[3] = "stored"

\* C9 (no partial persistence): once a downloadChunk call of an instrument has
\* failed, downloadWithRetry hands no candles on, no save is made for the
\* instrument, and the loop is at the next instrument.
C9_NoPartialPersistence ==
    /\ (ret.err \in Errs /\ pc # "fetch") =>
          /\ pc \in {"loop", "done"}
          /\ idx > 1
          /\ status[idx - 1] = "fetchFailed"
          /\ candles = <<>>
          /\ allCandles = <<>>
    /\ \A k \in Instruments :
          status[k] = "fetchFailed" => (csvCalls[k] = 0 /\ pqCalls[k] = 0)

C9_Witness ==
    /\ pc = "loop"
    /\ ret.err \in Errs
    /\ idx > 1
    /\ status[idx - 1] = "fetchFailed"
    /\ Len(chunks) >= 2
    /\ idx <= NumInstruments

\* C10 (cancellation is not an error): when DownloadHistoricalData has observed
\* the cancellation and returned, it has returned nil and the caller does not
\* treat the run as failed.
C10_CancelNotError ==
    (pc = "done" /\ observed) => (retErr = "nil" /\ ~MainFatal)

\* C11 (cancellation between instruments): once cancel() has been called and the
\* loop stands between two instruments (in the wait after one, or at the top of an
\* iteration), every further step leads to the next loop top or to the return; no
\* GetHistoricalData call, no saveToCSV and no convertToParquet is made for any
\* instrument, and what was stored stays as it is.
BetweenInstruments == pc \in {"wait", "loop", "done"}

C11_CancelBetweenInstruments ==
    [][(cancelled /\ BetweenInstruments) =>
          /\ pc' \in {"loop", "done"}
          /\ called' = called
          /\ csvCalls' = csvCalls
          /\ pqCalls' = pqCalls
          /\ status' = status]_vars

C11_Witness ==
    /\ pc = "done"
    /\ observed
    /\ status[1] = "stored"
    /\ csvCalls[1] = 1
    /\ \A k \in Instruments :
          k > 1 => (status[k] = "pending" /\ ~called[k] /\ csvCalls[k] = 0
                      /\ pqCalls[k] = 0)

\* C12 (one saveToCSV per fetched instrument): saveToCSV has been called once for
\* every instrument whose downloadWithRetry returned without error and that has
\* got past the save, and never for any other instrument: not for one whose
\* fetch failed, not for one the loop has not reached; the save is only entered
\* with a fetch that succeeded.
PastSave(k) ==
    \/ status[k] \in {"stored", "saveFailed", "parquetFailed"}
    \/ (k = idx /\ pc = "parquet")

C12_SaveOncePerFetched ==
    /\ \A k \in Instruments : csvCalls[k] = IF PastSave(k) THEN 1 ELSE 0
    /\ \A k \in Instruments : PastSave(k) => called[k]
    /\ pc \in {"save", "parquet"} => (ret.err = "none" /\ status[idx] = "pending")

C12_Witness ==
    /\ pc = "done"
    /\ cancelled
    /\ csvCalls[1] = 1
    /\ status[2] = "fetchFailed"
    /\ csvCalls[2] = 0
    /\ status[3] = "pending"
    /\ csvCalls[3] = 0

\* C13 (termination): every step of the program makes a measure of the work left
\* strictly smaller, the measure is a bounded tuple of naturals, and the program
\* can always take a step until DownloadHistoricalData has returned; hence it
\* returns after finitely many steps whatever the API answers. The measure is,
\* in lexicographic order: the place in the instrument loop, the part of the
\* window the chunk loop has still to cover, the place in the chunk loop, and
\* for each downloadChunk call on the stack, outermost first, its attempts left
\* or its place in the bisection. Attempts never pass MaxRetries and the
\* recursion is no deeper than halving down to the 5-day floor allows.
OrchRank ==
    CASE pc = "start" -> 6 * (NumInstruments + 2)
      [] pc = "done" -> 0
      [] pc = "loop" -> 6 * (NumInstruments + 1 - idx) + 5
      [] pc = "fetch" -> 6 * (NumInstruments + 1 - idx) + 4
      [] pc = "save" -> 6 * (NumInstruments + 1 - idx) + 3
      [] pc = "parquet" -> 6 * (NumInstruments + 1 - idx) + 2
      [] pc = "wait" -> 6 * (NumInstruments + 1 - idx) + 1

ChunkRank == IF pc = "fetch" THEN to + Second - currentFrom ELSE 0

WpcRank == IF pc = "fetch" /\ wpc = "sleep" THEN 1 ELSE 0

FrameRank(fr) ==
    CASE fr.pc = "call" -> 2 * (cfg.MaxRetries - fr.i) + 1
      [] fr.pc = "backoff" -> 2 * (cfg.MaxRetries - fr.i)
      [] fr.pc = "first" -> 2
      [] fr.pc = "pace" -> 1
      [] fr.pc = "second" -> 0

\* the ranks of the calls on the stack, outermost first, compared in
\* lexicographic order; a stack that is a proper prefix of another is smaller
StackLess(a, b) ==
    \E j \in 1..Len(b) :
       /\ j - 1 <= Len(a)
       /\ \A m \in 1..(j - 1) : FrameRank(a[m]) = FrameRank(b[m])
       /\ (j > Len(a) \/ FrameRank(a[j]) < FrameRank(b[j]))

MeasureDecreases ==
    \/ OrchRank' < OrchRank
    \/ /\ OrchRank' = OrchRank
       /\ \/ ChunkRank' < ChunkRank
          \/ /\ ChunkRank' = ChunkRank
             /\ \/ WpcRank' < WpcRank
                \/ (WpcRank' = WpcRank /\ StackLess(stack', stack))

RECURSIVE MaxDepth(_)
MaxDepth(s) == IF s <= MinSplit THEN 1 ELSE 1 + MaxDepth(s \div 2)

MeasureBounded ==
    /\ OrchRank >= 0
    /\ ChunkRank >= 0
    /\ \A j \in 1..Len(stack) :
          stack[j].pc \in {"call", "backoff"} => stack[j].i < cfg.MaxRetries
    /\ stack # <<>> => Len(stack) <= MaxDepth(Span(stack[1]))

C13_Termination ==
    /\ [](pc # "done" => ENABLED (Start \/ Program))
    /\ [][cancelled' = cancelled => (MeasureDecreases /\ MeasureBounded')]_vars

C13_Witness ==
    /\ pc = "done"
    /\ retErr = "nil"
    /\ env.faults = 0
    /\ \E k \in Instruments : status[k] = "fetchFailed"
    /\ \E k \in Instruments : status[k] = "stored"
    /\ cfg.DaysToFetch = 104

\* C14 (60-day limit for minute data): with the minute interval, every window
\* downloadWithRetry hands to downloadChunk and every window of a downloadChunk
\* call on the stack (a chunk, a retry of it, a half of a bisection) spans at
\* most 60 days, whatever the number of days to fetch.
C14_MinuteSpanLimit ==
    interval = S_minute =>
       /\ \A j \in 1..Len(chunks) : Span(chunks[j]) <= 60 * Day
       /\ \A j \in 1..Len(stack) : stack[j].to - stack[j].from <= 60 * Day
       /\ ret.err # "pending" => ret.to - ret.from <= 60 * Day

C14_Witness ==
    /\ interval = S_minute
    /\ cfg.DaysToFetch = 104
    /\ Len(chunks) = 2
    /\ Len(stack) = 2
    /\ Top(stack).pc = "backoff"
    /\ Top(stack).calls = 1

\* C15 (date-range flags): when --from and --to are given and the download has
\* started, the window asked for starts at the --from date and ends at the --to
\* date.
C15_DateRangeFlags ==
    (flags.fromDate # 0 /\ flags.toDate # 0 /\ pc \notin {"start", "done"}) =>
       (from = flags.fromDate /\ to = flags.toDate)

\* C16 (symbol source fallback): with neither --symbols nor --symbol-file and a
\* symbols: list in the configuration file, the run does not end for lack of
\* symbols.
C16_SymbolFallback ==
    (~flags.symbols /\ ~flags.symbolFile /\ flags.cfgSymbols) => retErr # "noSymbols"

\* C17 (range-too-large is never retried): a downloadChunk call that got the
\* range-too-large answer, on whichever attempt, never calls the API again for its
\* own window: it is in its bisection, which it entered because its window is
\* longer than 5 days, or it has returned the permanent failure, which it does
\* for a window of at most 5 days however many attempts were left.
C17_RangeTooLargePriority ==
    /\ \A j \in 1..Len(stack) :
          /\ stack[j].rejected =>
                /\ stack[j].pc \in {"first", "pace", "second"}
                /\ stack[j].to - stack[j].from > 5 * Day
          /\ ~stack[j].rejected => stack[j].pc \in {"call", "backoff"}
    /\ ret.err = "WindowTooSmall" =>
          /\ ret.to - ret.from <= 5 * Day
          /\ ret.calls \in 1..cfg.MaxRetries

C17_Witness ==
    /\ cfg.MaxRetries = 2
    /\ \E j \in 1..Len(stack) : stack[j].rejected /\ stack[j].calls = 2

\* C18 (bisection step): a downloadChunk call that bisects [start, end] runs its
\* first half on [start, mid] with mid = start + (end - start) / 2, holds the
\* first half's result during the pacing sleep with no call running, and only
\* after the sleep runs its second half on [mid + 1 s, end]; the candles it
\* returns have the first half's last candle right before the second half's first.
C18_BisectionStep ==
    /\ \A j \in 1..Len(stack) :
          LET p == stack[j]
              mid == p.from + ((p.to - p.from) \div 2)
          IN /\ p.pc = "first" =>
                   /\ j < Len(stack)
                   /\ ~p.paced
                   /\ stack[j + 1].from = p.from
                   /\ stack[j + 1].to = mid
             /\ p.pc = "pace" => (j = Len(stack) /\ ~p.paced)
             /\ p.pc = "second" =>
                   /\ j < Len(stack)
                   /\ p.paced
                   /\ stack[j + 1].from = mid + Second
                   /\ stack[j + 1].to = p.to
    /\ (ret.err = "none" /\ Len(ret.candles) > 2) =>
          LET mid == ret.from + ((ret.to - ret.from) \div 2) IN
          \E j \in 1..(Len(ret.candles) - 1) :
             /\ ret.candles[j].Timestamp = mid
             /\ ret.candles[j + 1].Timestamp = mid + Second

C18_Witness ==
    /\ ret.err = "none"
    /\ stack = <<>>
    /\ Len(ret.candles) = 4
    /\ ret.calls = 2

\* C19 (independent retry budgets): the attempt counter of every downloadChunk
\* call counts the calls this call itself has made and nothing else: a call
\* that has not called the API yet is at attempt 0 whatever its parent has used.
C19_IndependentBudgets ==
    \A j \in 1..Len(stack) :
       /\ stack[j].pc = "call" => (stack[j].i = stack[j].calls /\ stack[j].i < cfg.MaxRetries)
       /\ stack[j].pc # "call" => stack[j].i = stack[j].calls - 1

C19_Witness ==
    /\ Len(stack) = 2
    /\ cfg.MaxRetries = 2
    /\ stack[1].calls = 2
    /\ stack[2].pc = "call"
    /\ stack[2].calls = 0
    /\ stack[2].i = 0

\* C20 (first failure propagates): when a downloadChunk call has failed, every
\* bisecting caller has returned that failure: no call is left on the stack to
\* ask for a second half, and no candle of a first half is returned; a result
\* without error for a window with data holds the candles of both ends of the
\* window, so both halves of every bisection have succeeded.
C20_FirstFailurePropagates ==
    /\ ret.err \in Errs => (stack = <<>> /\ ret.candles = <<>>)
    /\ (ret.err = "none" /\ series /\ ret.from < ret.to) =>
          /\ Len(ret.candles) >= 2
          /\ ret.candles[1].Timestamp = ret.from
          /\ ret.candles[Len(ret.candles)].Timestamp = ret.to

C20_Witness ==
    /\ pc = "fetch"
    /\ ret.err \in Errs
    /\ series
    /\ Len(chunks) = 1
    /\ ret.to = chunks[1].to
    /\ ret.from > chunks[1].from

\* C21 (transient handling): a downloadChunk call in its backoff sleep has an
\* attempt left, and the step that ends the sleep repeats the call with the same
\* window and the counter one higher; the exhausted failure is returned straight
\* from the failed call of the last attempt, with no sleep before it; an answer
\* without error ends the call at once with the candles of that answer.
C21_TransientHandling ==
    [][(pc = "fetch" /\ stack # <<>> /\ cancelled' = cancelled) =>
          LET t == Top(stack) IN
          /\ t.pc = "backoff" =>
                /\ t.i < cfg.MaxRetries - 1
                /\ stack' = Front(stack) \o <<[t EXCEPT !.i = t.i + 1, !.pc = "call"]>>
          /\ ret'.err = "Exhausted" =>
                /\ t.pc = "call"
                /\ t.calls = cfg.MaxRetries - 1
                /\ ret'.from = t.from /\ ret'.to = t.to
                /\ ret'.calls = cfg.MaxRetries
          /\ (Len(stack) = 1 /\ ret'.err = "none" /\ t.pc = "call") =>
                /\ stack' = <<>>
                /\ ret'.candles \in {Convert(d) : d \in Responses(t.from, t.to, series)}]_vars

C21_Witness ==
    /\ ret.err = "Exhausted"
    /\ cfg.MaxRetries = 2
    /\ ret.calls = 2
    /\ stack = <<>>

\* C22 (backoff longer than pacing): once the configuration is complete (file,
\* environment, defaults, flags), the delay slept before a retry is strictly
\* greater than the delay slept between calls.
C22_BackoffAbovePacing ==
    pc \notin {"load", "flags"} => BackoffDelay(cfg) > PacingDelay(cfg)

\* C23 (chunk pacing): inside the chunked loop the pacing sleep is only taken
\* when another chunk follows it, never after the last chunk of the instrument.
C23_ChunkPacing ==
    (pc = "fetch" /\ wpc = "sleep") => currentFrom < to

\* C24 (instrument pacing): every step that brings the loop to the top of the
\* iteration of a next instrument is the end of the wait after the instrument
\* before it, whether that one was stored or has failed.
C24_InstrumentPacing ==
    [][(pc # "loop" /\ pc' = "loop" /\ idx' > 1 /\ idx' <= NumInstruments) =>
          pc = "wait"]_vars

\* C25 (cancellation during a sleep): when cancel() has been called and the
\* download is in a sleep (between chunks, between the halves of a bisection,
\* before a retry, between instruments), the step that ends the sleep does not
\* lead to another call of the API.
Sleeping ==
    \/ pc = "wait"
    \/ (pc = "fetch" /\ wpc = "sleep")
    \/ (pc = "fetch" /\ stack # <<>> /\ Top(stack).pc \in {"backoff", "pace"})

C25_CancelDuringSleep ==
    [][(cancelled /\ Sleeping) => ~(AtCall')]_vars

\* C26 (strictly sequential processing): the API has been called only for the
\* instruments up to the current one, every instrument before the current one
\* is finished (stored or failed) and none after it has been touched; the
\* chunks of the current instrument follow each other in time; only the
\* innermost downloadChunk call can call the API, every other call on the stack
\* waits for a half; this holds with cancel() arriving at any moment.
C26_Sequential ==
    /\ \A k \in Instruments :
          /\ k < idx => status[k] # "pending"
          /\ k > idx => (status[k] = "pending" /\ ~called[k] /\ csvCalls[k] = 0
                          /\ pqCalls[k] = 0)
          /\ called[k] => (k < idx \/ pc \in {"fetch", "save", "parquet", "wait", "done"})
    /\ \A j \in 1..(Len(chunks) - 1) : chunks[j].to < chunks[j + 1].from
    /\ \A j \in 1..(Len(stack) - 1) : stack[j].pc \in {"first", "second"}

C26_Witness ==
    /\ cancelled
    /\ pc = "fetch"
    /\ idx = 2
    /\ Len(chunks) = 2
    /\ Len(stack) = 2
    /\ called[2]

\* C27 (start before end): every window handed to downloadChunk, a chunk of
\* the chunked loop or the whole window or a half of a bisection, starts
\* before it ends, for every number of days the configuration can hold.
C27_StartBeforeEnd ==
    /\ \A j \in 1..Len(chunks) : chunks[j].from < chunks[j].to
    /\ \A j \in 1..Len(stack) : stack[j].from < stack[j].to

\* C28 (persistence failures are not fatal): after a failed saveToCSV or
\* convertToParquet the loop is at the next instrument or beyond, the error is
\* not the return value of the run (which is nil unless the run was cancelled),
\* and the record of every other instrument is what its own fetch and store
\* made it: a stored one has its one save, a failed fetch has none.
StoreFailed(k) == status[k] \in {"saveFailed", "parquetFailed"}

C28_StoreFailureNotFatal ==
    \A k \in Instruments :
       StoreFailed(k) =>
          /\ idx > k
          /\ retErr \in {"none", "nil", CtxDoneReturn}
          /\ (pc = "done" /\ ~observed) => (retErr = "nil" /\ idx = NumInstruments + 1)
          /\ csvCalls[k] = 1
          /\ pqCalls[k] = IF status[k] = "parquetFailed" THEN 1 ELSE 0
          /\ \A m \in Instruments :
                (m # k /\ status[m] = "stored") =>
                   (csvCalls[m] = 1 /\ pqCalls[m] = IF cfg.ParquetEnabled THEN 1 ELSE 0)

C28_Witness ==
    /\ pc = "done"
    /\ retErr = "nil"
    /\ status[1] = "stored"
    /\ status[2] = "parquetFailed"
    /\ status[3] = "stored"

\* C29 (bounded call volume): with MaxRetries = N, one top-level downloadChunk
\* call on a window of at most 60 days makes at most 31 * N calls of the API,
\* counted over the call itself and every recursive call, while it runs and
\* when it has returned, whatever the API answers.
C29_BoundedCalls ==
    (chunks # <<>> /\ chunks[Len(chunks)].to - chunks[Len(chunks)].from <= 60 * Day) =>
       env.calls <= 31 * cfg.MaxRetries

C29_Witness ==
    /\ ret.err = "none"
    /\ stack = <<>>
    /\ cfg.MaxRetries > 1
    /\ env.calls = 31 * cfg.MaxRetries

\* the windows of the API responses that make up a sequence of candles: every
\* response for a window with data holds the candle of its start and of its end
ResponseWindows(cs) ==
    [j \in 1..(Len(cs) \div 2) |->
        [from |-> cs[2 * j - 1].Timestamp, to |-> cs[2 * j].Timestamp]]

\* C30 (partition on success): when downloadChunk(from, to) has returned
\* without error, after any transient and range-too-large answers, the windows
\* of the responses that make up its candles are in chronological order and
\* disjoint: the first starts at from, the last ends at to, every next window
\* starts one second after the one before it ends, and so no window gives its
\* candles twice.
C30_PartitionOnSuccess ==
    (stack = <<>> /\ ret.err = "none" /\ series) =>
       LET w == ResponseWindows(ret.candles) IN
       /\ Len(ret.candles) = 2 * Len(w)
       /\ Len(w) >= 1
       /\ w[1].from = ret.from
       /\ w[Len(w)].to = ret.to
       /\ \A j \in 1..Len(w) : w[j].from < w[j].to
       /\ \A j \in 1..(Len(w) - 1) : w[j + 1].from = w[j].to + Second

\* four windows, after three range-too-large answers and a transient error
C30_Witness ==
    /\ stack = <<>>
    /\ ret.err = "none"
    /\ series
    /\ Len(ret.candles) = 8
    /\ env.calls > 7

====
